---- MODULE Spec2Model ----
(***************************************************************************)
(* A model of package tx (src/tx/transaction.go): the Transaction object   *)
(* with its four atomic memo cells, the process-wide signer LRU cache,     *)
(* and the gas / fee arithmetic.                                           *)
(*                                                                         *)
(* Every method that touches shared memory is a small machine of frames    *)
(* on a per-goroutine call stack; one step is one access to shared memory  *)
(* (an atomic.Value Load or Store, an LRU Get or Add).  Methods that are   *)
(* pure arithmetic (IntrinsicGas, GasPrice, measureDelay) are one action.  *)
(*                                                                         *)
(* Scaling.  TLC's integers are 32 bits wide, so the fixed widths of the   *)
(* program are scaled down and kept as moduli: MaxUint64, MaxUint32 and    *)
(* MaxBig256 are the largest values of the scaled uint64, uint32 and       *)
(* 256-bit words.  Body fields no modelled method branches on (ChainTag,   *)
(* DependsOn, Reserved, a clause's Value) are left out of the body; a      *)
(* clause's Data is kept as its count of zero and of non-zero bytes.       *)
(***************************************************************************)
EXTENDS Integers, Sequences, FiniteSets, TLC

VARIABLES txs, bufs, signerCache, stk, ret, lookups

vars == <<txs, bufs, signerCache, stk, ret, lookups>>

(***************************************************************************)
(* Bounds of the model.                                                    *)
(***************************************************************************)
MaxTx == 2            \* Transaction objects alive at once
NumThreads == 2       \* goroutines of the concurrent specification
MaxNonce == 1         \* body.Nonce ranges over 0..MaxNonce
MaxClauses == 2       \* clauses of a body in the gas specification
CacheCap == 2         \* capacity of the signer LRU (1024 in the program)
HashBase == 4         \* radix of the modelled digest
MaxUint64 == 1048575  \* scaled math.MaxUint64
MaxUint32 == 63       \* scaled math.MaxUint32
MaxBig256 == 16777215 \* scaled math.MaxBig256
MaxAddress == 255     \* scaled largest thor.Address
SignatureLength == 2  \* bytes of a signature, r || v (65 in crypto.SigToPub)
RefSuffixMod == 2     \* a BlockRef is number * RefSuffixMod + hash suffix

(***************************************************************************)
(* Program constants.  The gas constants are those of thor/params.go and   *)
(* of go-ethereum's params, which transaction.go imports.                  *)
(***************************************************************************)
signerCacheSize == CacheCap
TxGas == 5000
ClauseGas == 16000
ClauseGasContractCreation == 48000
TxDataZeroGas == 4
TxDataNonZeroGas == 68
MaxTxWorkDelay == 30
MaxUint8 == 255

invalidTxID == MaxBig256

TxIds == 1..MaxTx
Threads == 1..NumThreads
CallerBuf == 0        \* the byte array behind the caller's sig slice
Empty == <<>>         \* an atomic.Value nothing was stored in
Some(v) == <<v>>

(***************************************************************************)
(* Overflow-checked uint64 arithmetic (go-ethereum common/math).           *)
(***************************************************************************)
SafeAdd(x, y) == [val |-> (x + y) % (MaxUint64 + 1), overflow |-> y > MaxUint64 - x]

SafeMul(x, y) ==
    IF x = 0 \/ y = 0
    THEN [val |-> 0, overflow |-> FALSE]
    ELSE [val |-> (x * y) % (MaxUint64 + 1), overflow |-> y > MaxUint64 \div x]

\* dataGas without its checks: the products and the sum wrap.
dataGasWrapping(data) ==
    [gas |-> (TxDataZeroGas * data.zeros + TxDataNonZeroGas * data.nonzeros)
                % (MaxUint64 + 1),
     err |-> FALSE]

\* dataGas(data): data is the clause's Data, kept as the number of its zero
\* and of its non-zero bytes, which is all the counting loop reads of it.
dataGas(data) ==
    IF data.zeros + data.nonzeros = 0
    THEN [gas |-> 0, err |-> FALSE]
    ELSE LET z     == data.zeros
             nz    == data.nonzeros
             zgas  == SafeMul(TxDataZeroGas, z)
             nzgas == SafeMul(TxDataNonZeroGas, nz)
             gas   == SafeAdd(zgas.val, nzgas.val)
         IN  IF zgas.overflow \/ nzgas.overflow \/ gas.overflow
             THEN [gas |-> 0, err |-> TRUE]
             ELSE [gas |-> gas.val, err |-> FALSE]

\* One turn of IntrinsicGas's loop: acc is [total, err], c the clause.
ClauseStep(acc, c) ==
    IF acc.err THEN acc
    ELSE LET dg == dataGas(c.Data) IN
         IF dg.err THEN [total |-> 0, err |-> TRUE]
         ELSE LET t1   == SafeAdd(acc.total, dg.gas)
                  cgas == IF c.To = 0 THEN ClauseGasContractCreation ELSE ClauseGas
                  t2   == SafeAdd(t1.val, cgas)
              IN  IF t1.overflow \/ t2.overflow
                  THEN [total |-> 0, err |-> TRUE]
                  ELSE [total |-> t2.val, err |-> FALSE]

RECURSIVE ClauseLoop(_, _)
ClauseLoop(acc, cs) ==
    IF cs = <<>> THEN acc ELSE ClauseLoop(ClauseStep(acc, Head(cs)), Tail(cs))

\* IntrinsicGas() of a body: [val, err], err standing for evm.ErrOutOfGas.
IntrinsicGasOf(body) ==
    IF Len(body.Clauses) = 0
    THEN [val |-> TxGas + ClauseGas, err |-> FALSE]
    ELSE LET r == ClauseLoop([total |-> TxGas, err |-> FALSE], body.Clauses)
         IN  [val |-> r.total, err |-> r.err]

(***************************************************************************)
(* Encoding and hashing.                                                   *)
(***************************************************************************)
RECURSIVE FlatClauses(_)
FlatClauses(cs) ==
    IF cs = <<>> THEN <<>>
    ELSE <<Head(cs).To, Head(cs).Data.zeros, Head(cs).Data.nonzeros>>
            \o FlatClauses(Tail(cs))

\* The list SigningHash encodes: the body without its signature.
SigningPayload(body) ==
    <<body.Nonce, body.BlockRef, Len(body.Clauses)>> \o FlatClauses(body.Clauses)
        \o <<body.GasPriceCoef, body.Gas>>

\* EncodeRLP: the whole body; the signature is a length-prefixed string.
RLPEncode(body, sig) == SigningPayload(body) \o <<Len(sig)>> \o sig

\* Keccak-256 as a positional digest of the encoded items:
\* it tells apart any two short encodings over small items (no collision),
\* is never zero and never the all-ones word.
RECURSIVE KeccakFold(_, _)
KeccakFold(h, bytes) ==
    IF bytes = <<>> THEN h
    ELSE KeccakFold((h * HashBase + Head(bytes) + 1) % (MaxBig256 - 1), Tail(bytes))

Keccak256(bytes) == KeccakFold(0, bytes) + 1

SigningHashOf(body) == Keccak256(SigningPayload(body))

\* The key of the signer LRU: the digest of the full encoding.
SignerCacheKeyNoSig(body, sig) == Keccak256(SigningPayload(body))

SignerCacheKey(body, sig) == Keccak256(RLPEncode(body, sig))

\* crypto.SigToPub then crypto.PubkeyToAddress: [val, err].  A signature
\* recovers a key when it has SignatureLength bytes and its r bytes are not
\* all zero; the address is a digest of (hash, signature) cut to MaxAddress.
SigToAddress(hash, sig) ==
    IF Len(sig) # SignatureLength
          \/ \A i \in 1..(SignatureLength - 1) : sig[i] = 0
    THEN [val |-> 0, err |-> TRUE]
    ELSE [val |-> (Keccak256(<<hash>> \o sig) % MaxAddress) + 1, err |-> FALSE]

makeIDOf(signingHash, signer) == Keccak256(<<signingHash, signer>>)

\* idToWork: MaxBig256 / id; big.Int division by zero panics.
idToWork(id) ==
    IF id = 0 THEN [val |-> 0, fault |-> TRUE]
    ELSE [val |-> MaxBig256 \div id, fault |-> FALSE]

\* Size: the length of the encoding.
SizeOf(body, sig) == Len(RLPEncode(body, sig))

(***************************************************************************)
(* Fee arithmetic.                                                         *)
(***************************************************************************)
\* GasPrice: big.Int Div is Euclidean, which for the divisor 255 is the floor.
GasPriceOf(body, baseGasPrice) ==
    ((body.GasPriceCoef * baseGasPrice) \div MaxUint8) + baseGasPrice

\* BlockRef.Number(): the first four bytes of the reference.
Number(blockRef) == blockRef \div RefSuffixMod

\* bytes.HasPrefix(id[:], ref[:]): a block id is <<its first 8 bytes, rest>>.
HasPrefix(id, blockRef) == id[1] = blockRef

\* measureDelay without its first check: the subtraction wraps.
measureDelayNoRefCheck(body, headBlockNum, id) ==
    LET refNum == Number(body.BlockRef)
        gap    == (headBlockNum - refNum) % (MaxUint32 + 1)
    IN  IF gap > MaxTxWorkDelay
        THEN [val |-> MaxUint32, lookups |-> <<>>]
        ELSE [val |-> IF HasPrefix(id, body.BlockRef) THEN gap ELSE MaxUint32,
              lookups |-> <<refNum>>]

\* measureDelay(headBlockNum, getBlockID): id is what getBlockID returns
\* when it is called; lookups lists the numbers it was called with.
measureDelay(body, headBlockNum, id) ==
    LET refNum == Number(body.BlockRef) IN
    IF refNum >= headBlockNum
    THEN [val |-> MaxUint32, lookups |-> <<>>]
    ELSE IF (headBlockNum - refNum) % (MaxUint32 + 1) > MaxTxWorkDelay
    THEN [val |-> MaxUint32, lookups |-> <<>>]
    ELSE [val |-> IF HasPrefix(id, body.BlockRef)
                  THEN (headBlockNum - refNum) % (MaxUint32 + 1)
                  ELSE MaxUint32,
          lookups |-> <<refNum>>]

\* workToGas: more work buys more gas, a later head block less.
workToGas(work, blockNum) == work \div (blockNum \div MaxTxWorkDelay + 1)

\* The tail of OverallGasPrice, after ProvedWork returned work.
OverallTail(body, baseGasPrice, headBlockNum, gasPrice, work) ==
    LET w    == workToGas(work, headBlockNum)
        wgas == IF w > body.Gas THEN body.Gas ELSE w
    IN  IF body.Gas = 0
        THEN [val |-> 0, fault |-> TRUE]
        ELSE [val |-> ((wgas * baseGasPrice) \div body.Gas) + gasPrice,
              fault |-> FALSE]

(***************************************************************************)
(* The signer LRU (hashicorp/golang-lru): most recently used first.        *)
(***************************************************************************)
RECURSIVE Without(_, _)
Without(cache, key) ==
    IF cache = <<>> THEN <<>>
    ELSE IF Head(cache).key = key THEN Without(Tail(cache), key)
    ELSE <<Head(cache)>> \o Without(Tail(cache), key)

LruHas(cache, key) == \E i \in 1..Len(cache) : cache[i].key = key

LruValue(cache, key) == cache[CHOOSE i \in 1..Len(cache) : cache[i].key = key].value

\* Get on a hit: the entry moves to the front.
LruTouch(cache, key) ==
    <<[key |-> key, value |-> LruValue(cache, key)]>> \o Without(cache, key)

\* Add: the entry goes to the front; past the capacity the oldest is dropped.
LruAdd(cache, key, value) ==
    LET c == <<[key |-> key, value |-> value]>> \o Without(cache, key)
    IN  IF Len(c) > signerCacheSize THEN SubSeq(c, 1, signerCacheSize) ELSE c

(***************************************************************************)
(* Objects.                                                                *)
(***************************************************************************)
NoCache == [signingHash |-> Empty, signer |-> Empty, id |-> Empty, size |-> Empty]

\* The zero body; an object's own signature bytes live in bufs[its id].
ZeroBody(t) ==
    [Nonce |-> 0, BlockRef |-> 0, Clauses |-> <<>>, GasPriceCoef |-> 0,
     Gas |-> 0, Signature |-> t]

ZeroTx(t) == [body |-> ZeroBody(t), cache |-> NoCache]

Sig(t) == bufs[txs[t].body.Signature]

SigInputs == {<<>>} \cup [1..SignatureLength -> 0..1]

ZeroSig == [i \in 1..SignatureLength |-> 0]   \* r = 0: no key is recovered

OneSig == [i \in 1..SignatureLength |-> 1]    \* a signature that recovers

\* The signatures of the object specification: decoded ones, the caller's.
DecodedSigs == {<<>>, OneSig}

CallerSigs == {ZeroSig, OneSig}

NoArg == [base |-> 0, head |-> 0, id |-> <<0, 0>>]

NoSub == [val |-> 0, err |-> FALSE]

\* What a call returned: the method, the object, the value and error, whether
\* it panicked, and the arguments it was given.
NoRet == [fn |-> "none", t |-> 0, val |-> 0, err |-> FALSE, fault |-> FALSE,
          arg |-> NoArg, input |-> <<>>]

Frame(fn, pc, t, arg) ==
    [fn |-> fn, pc |-> pc, t |-> t, arg |-> arg, key |-> 0, val |-> 0,
     err |-> FALSE, sub |-> NoSub]

(***************************************************************************)
(* The call stack of a goroutine.                                          *)
(***************************************************************************)
Idle(th) == stk[th] = <<>>

Top(th) == stk[th][Len(stk[th])]

At(th, fn, pc) == ~Idle(th) /\ Top(th).fn = fn /\ Top(th).pc = pc

SetTop(s, f) == [s EXCEPT ![Len(s)] = f]

Goto(th, f) == stk' = [stk EXCEPT ![th] = SetTop(@, f)] /\ UNCHANGED ret

Push(th, f, callee) ==
    stk' = [stk EXCEPT ![th] = Append(SetTop(@, f), callee)] /\ UNCHANGED ret

\* The top frame returns (val, err): to its caller's frame, or, from the
\* bottom frame, to the goroutine's caller.
Return(th, val, err) ==
    LET s == stk[th]
        n == Len(s)
    IN  IF n = 1
        THEN /\ stk' = [stk EXCEPT ![th] = <<>>]
             /\ ret' = [ret EXCEPT ![th] =
                          [fn |-> s[1].fn, t |-> s[1].t, val |-> val, err |-> err,
                           fault |-> FALSE, arg |-> s[1].arg, input |-> <<>>]]
        ELSE /\ stk' = [stk EXCEPT ![th] =
                          SetTop(SubSeq(s, 1, n - 1),
                                 [s[n - 1] EXCEPT !.sub = [val |-> val, err |-> err]])]
             /\ UNCHANGED ret

\* A run-time panic unwinds the whole stack.
Panic(th) ==
    /\ stk' = [stk EXCEPT ![th] = <<>>]
    /\ ret' = [ret EXCEPT ![th] =
                 [fn |-> stk[th][1].fn, t |-> stk[th][1].t, val |-> 0,
                  err |-> FALSE, fault |-> TRUE, arg |-> stk[th][1].arg,
                  input |-> <<>>]]

\* Calling method fn on object t; ret[th] is empty until the call returns.
Call(th, fn, pc, t, arg) ==
    /\ Idle(th)
    /\ stk' = [stk EXCEPT ![th] = <<Frame(fn, pc, t, arg)>>]
    /\ ret' = [ret EXCEPT ![th] = NoRet]
    /\ lookups' = <<>>
    /\ UNCHANGED <<txs, bufs, signerCache>>

(***************************************************************************)
(* SigningHash.                                                            *)
(***************************************************************************)
SigningHashLoad(th) ==
    /\ At(th, "SigningHash", "load")
    /\ LET f == Top(th)
           c == txs[f.t].cache.signingHash
       IN  IF c # Empty
           THEN Return(th, c[1], FALSE)
           ELSE Goto(th, [f EXCEPT !.pc = "store",
                                   !.val = SigningHashOf(txs[f.t].body)])
    /\ UNCHANGED <<txs, bufs, signerCache, lookups>>

\* The deferred Store, then the return.
SigningHashStore(th) ==
    /\ At(th, "SigningHash", "store")
    /\ LET f == Top(th) IN
       /\ txs' = [txs EXCEPT ![f.t].cache.signingHash = Some(f.val)]
       /\ Return(th, f.val, FALSE)
    /\ UNCHANGED <<bufs, signerCache, lookups>>

(***************************************************************************)
(* Signer.                                                                 *)
(***************************************************************************)
SignerLoad(th) ==
    /\ At(th, "Signer", "load")
    /\ LET f == Top(th)
           c == txs[f.t].cache.signer
       IN  IF c # Empty
           THEN Return(th, c[1], FALSE)
           ELSE Goto(th, [f EXCEPT !.pc = "get",
                                   !.key = SignerCacheKey(txs[f.t].body, Sig(f.t))])
    /\ UNCHANGED <<txs, bufs, signerCache, lookups>>

\* signerCache.Get: a hit returns through the first deferred Store alone;
\* a miss goes on to t.SigningHash() and the recovery.
SignerGet(th) ==
    /\ At(th, "Signer", "get")
    /\ LET f == Top(th) IN
       IF LruHas(signerCache, f.key)
       THEN /\ signerCache' = LruTouch(signerCache, f.key)
            /\ Goto(th, [f EXCEPT !.pc = "store",
                                  !.val = LruValue(signerCache, f.key)])
       ELSE /\ UNCHANGED signerCache
            /\ Push(th, [f EXCEPT !.pc = "recover"],
                    Frame("SigningHash", "load", f.t, NoArg))
    /\ UNCHANGED <<txs, bufs, lookups>>

SignerRecover(th) ==
    /\ At(th, "Signer", "recover")
    /\ LET f == Top(th)
           r == SigToAddress(f.sub.val, Sig(f.t))
       IN  Goto(th, [f EXCEPT !.pc = "add", !.val = r.val, !.err = r.err])
    /\ UNCHANGED <<txs, bufs, signerCache, lookups>>

\* The guard of Signer's two deferred functions: if err == nil.
SignerDeferAlways(err) == TRUE

SignerDeferGuard(err) == ~err

\* The second deferred function (run first): signerCache.Add.
SignerAdd(th) ==
    /\ At(th, "Signer", "add")
    /\ LET f == Top(th) IN
       /\ signerCache' = IF SignerDeferGuard(f.err)
                         THEN LruAdd(signerCache, f.key, f.val)
                         ELSE signerCache
       /\ Goto(th, [f EXCEPT !.pc = "store"])
    /\ UNCHANGED <<txs, bufs, lookups>>

\* The first deferred function: t.cache.signer.Store, then the return.
SignerStore(th) ==
    /\ At(th, "Signer", "store")
    /\ LET f == Top(th) IN
       /\ txs' = IF SignerDeferGuard(f.err)
                 THEN [txs EXCEPT ![f.t].cache.signer = Some(f.val)]
                 ELSE txs
       /\ Return(th, f.val, f.err)
    /\ UNCHANGED <<bufs, signerCache, lookups>>

(***************************************************************************)
(* ID.                                                                     *)
(***************************************************************************)
IDLoad(th) ==
    /\ At(th, "ID", "load")
    /\ LET f == Top(th)
           c == txs[f.t].cache.id
       IN  IF c # Empty
           THEN Return(th, c[1], FALSE)
           ELSE Push(th, [f EXCEPT !.pc = "signed"], Frame("Signer", "load", f.t, NoArg))
    /\ UNCHANGED <<txs, bufs, signerCache, lookups>>

\* After t.Signer(): the sentinel, or makeID, which calls t.SigningHash().
IDSigned(th) ==
    /\ At(th, "ID", "signed")
    /\ LET f == Top(th) IN
       IF f.sub.err
       THEN Goto(th, [f EXCEPT !.pc = "store", !.val = invalidTxID, !.err = TRUE])
       ELSE Push(th, [f EXCEPT !.pc = "make", !.key = f.sub.val],
                 Frame("SigningHash", "load", f.t, NoArg))
    /\ UNCHANGED <<txs, bufs, signerCache, lookups>>

IDMake(th) ==
    /\ At(th, "ID", "make")
    /\ LET f == Top(th) IN
       Goto(th, [f EXCEPT !.pc = "store", !.val = makeIDOf(f.sub.val, f.key)])
    /\ UNCHANGED <<txs, bufs, signerCache, lookups>>

\* Whether ID's deferred function stores: it does whatever Signer returned.
IDDeferOnSuccess(err) == ~err

IDDeferGuard(err) == TRUE

IDStore(th) ==
    /\ At(th, "ID", "store")
    /\ LET f == Top(th) IN
       /\ txs' = IF IDDeferGuard(f.err)
                 THEN [txs EXCEPT ![f.t].cache.id = Some(f.val)]
                 ELSE txs
       /\ Return(th, f.val, FALSE)
    /\ UNCHANGED <<bufs, signerCache, lookups>>

(***************************************************************************)
(* Size.                                                                   *)
(***************************************************************************)
SizeLoad(th) ==
    /\ At(th, "Size", "load")
    /\ LET f == Top(th)
           c == txs[f.t].cache.size
       IN  IF c # Empty
           THEN Return(th, c[1], FALSE)
           ELSE Goto(th, [f EXCEPT !.pc = "store",
                                   !.val = SizeOf(txs[f.t].body, Sig(f.t))])
    /\ UNCHANGED <<txs, bufs, signerCache, lookups>>

SizeStore(th) ==
    /\ At(th, "Size", "store")
    /\ LET f == Top(th) IN
       /\ txs' = [txs EXCEPT ![f.t].cache.size = Some(f.val)]
       /\ Return(th, f.val, FALSE)
    /\ UNCHANGED <<bufs, signerCache, lookups>>

(***************************************************************************)
(* ProvedWork.                                                             *)
(***************************************************************************)
ProvedWorkStart(th) ==
    /\ At(th, "ProvedWork", "start")
    /\ Push(th, [Top(th) EXCEPT !.pc = "signed"],
            Frame("Signer", "load", Top(th).t, NoArg))
    /\ UNCHANGED <<txs, bufs, signerCache, lookups>>

\* Whether ProvedWork returns zero after t.Signer(): if err != nil.
ProvedWorkNoCheck(err) == FALSE

ProvedWorkUnsigned(err) == err

ProvedWorkSigned(th) ==
    /\ At(th, "ProvedWork", "signed")
    /\ LET f == Top(th) IN
       IF ProvedWorkUnsigned(f.sub.err)
       THEN Return(th, 0, FALSE)
       ELSE Push(th, [f EXCEPT !.pc = "work"], Frame("ID", "load", f.t, NoArg))
    /\ UNCHANGED <<txs, bufs, signerCache, lookups>>

ProvedWorkWork(th) ==
    /\ At(th, "ProvedWork", "work")
    /\ LET w == idToWork(Top(th).sub.val) IN
       IF w.fault THEN Panic(th) ELSE Return(th, w.val, FALSE)
    /\ UNCHANGED <<txs, bufs, signerCache, lookups>>

(***************************************************************************)
(* OverallGasPrice.                                                        *)
(***************************************************************************)
OverallStart(th) ==
    /\ At(th, "OverallGasPrice", "start")
    /\ LET f        == Top(th)
           body     == txs[f.t].body
           gasPrice == GasPriceOf(body, f.arg.base)
           d        == measureDelay(body, f.arg.head, f.arg.id)
       IN  /\ lookups' = d.lookups
           /\ IF d.val > MaxTxWorkDelay
              THEN Return(th, gasPrice, FALSE)
              ELSE Push(th, [f EXCEPT !.pc = "work", !.val = gasPrice, !.key = d.val],
                        Frame("ProvedWork", "start", f.t, NoArg))
    /\ UNCHANGED <<txs, bufs, signerCache>>

OverallWork(th) ==
    /\ At(th, "OverallGasPrice", "work")
    /\ LET f == Top(th)
           r == OverallTail(txs[f.t].body, f.arg.base, f.arg.head, f.val, f.sub.val)
       IN  IF r.fault THEN Panic(th) ELSE Return(th, r.val, FALSE)
    /\ UNCHANGED <<txs, bufs, signerCache, lookups>>

\* The steps of the methods that read the memo cells.
StepSigner(th) ==
    \/ SigningHashLoad(th) \/ SigningHashStore(th)
    \/ SignerLoad(th) \/ SignerGet(th) \/ SignerRecover(th)
    \/ SignerAdd(th) \/ SignerStore(th)

StepTx(th) ==
    \/ StepSigner(th)
    \/ IDLoad(th) \/ IDSigned(th) \/ IDMake(th) \/ IDStore(th)

StepSize(th) == SizeLoad(th) \/ SizeStore(th)

StepWork(th) == ProvedWorkStart(th) \/ ProvedWorkSigned(th) \/ ProvedWorkWork(th)

StepOverall(th) == OverallStart(th) \/ OverallWork(th)

(***************************************************************************)
(* WithSignature, DecodeRLP and the caller's own writes.                   *)
(***************************************************************************)
\* WithSignature sharing the caller's byte array instead of copying it.
WithSignatureAliasing(t, u) ==
    [txs  |-> [txs EXCEPT ![u] = [body  |-> [txs[t].body EXCEPT !.Signature = CallerBuf],
                                  cache |-> NoCache]],
     bufs |-> bufs]

\* WithSignature copying the whole receiver, memo cells included.
WithSignatureKeepingCache(t, u) ==
    [txs  |-> [txs EXCEPT ![u] = [body  |-> [txs[t].body EXCEPT !.Signature = u],
                                  cache |-> txs[t].cache]],
     bufs |-> [bufs EXCEPT ![u] = bufs[CallerBuf]]]

\* WithSignature(sig) on t, the new object being u: the body is copied, the
\* signature is a fresh copy of the caller's bytes, the memo cells are zero.
WithSignatureEffect(t, u) ==
    [txs  |-> [txs EXCEPT ![u] = [body  |-> [txs[t].body EXCEPT !.Signature = u],
                                  cache |-> NoCache]],
     bufs |-> [bufs EXCEPT ![u] = bufs[CallerBuf]]]

WithSignature(t, u) ==
    /\ Idle(1)
    /\ u # t
    /\ txs' = WithSignatureEffect(t, u).txs
    /\ bufs' = WithSignatureEffect(t, u).bufs
    /\ ret' = [ret EXCEPT ![1] = [NoRet EXCEPT !.fn = "WithSignature", !.t = t, !.val = u]]
    /\ UNCHANGED <<signerCache, stk, lookups>>

\* The bodies a stream can decode to: object t's body with any nonce.
DecodableBodies(t) == {[ZeroBody(t) EXCEPT !.Nonce = n] : n \in 0..MaxNonce}

\* rlp's Stream.Decode(&body): the body and signature the input encodes, or
\* an error when the input encodes none.
RLPDecode(input, t) ==
    LET found == {p \in DecodableBodies(t) \X SigInputs : RLPEncode(p[1], p[2]) = input}
    IN  IF found = {}
        THEN [err |-> TRUE, body |-> ZeroBody(t), sig |-> <<>>]
        ELSE LET p == CHOOSE q \in found : TRUE
             IN  [err |-> FALSE, body |-> p[1], sig |-> p[2]]

Encodings(sigs) == {RLPEncode(p[1], p[2]) : p \in DecodableBodies(1) \X sigs}

\* Well-formed streams and streams cut one item short.
DecodeInputs(sigs) ==
    Encodings(sigs) \cup {SubSeq(e, 1, Len(e) - 1) : e \in Encodings(sigs)}

\* DecodeRLP(s) on t: on an error nothing is assigned; otherwise *t is
\* replaced by a Transaction holding the decoded body and zero memo cells.
DecodeRLPEffect(t, input) ==
    LET d == RLPDecode(input, t) IN
    IF d.err
    THEN [txs |-> txs, bufs |-> bufs, err |-> TRUE]
    ELSE [txs  |-> [txs EXCEPT ![t] = [body |-> d.body, cache |-> NoCache]],
          bufs |-> [bufs EXCEPT ![t] = d.sig],
          err  |-> FALSE]

DecodeRLP(t, input) ==
    /\ Idle(1)
    /\ \E e \in {DecodeRLPEffect(t, input)} :
          /\ txs' = e.txs
          /\ bufs' = e.bufs
          /\ ret' = [ret EXCEPT ![1] = [NoRet EXCEPT !.fn = "DecodeRLP", !.t = t,
                                                     !.err = e.err, !.input = input]]
    /\ UNCHANGED <<signerCache, stk, lookups>>

\* The caller overwrites the bytes of the slice it passed to WithSignature.
MutateCallerSig(s) ==
    /\ Idle(1)
    /\ s # bufs[CallerBuf]
    /\ bufs' = [bufs EXCEPT ![CallerBuf] = s]
    /\ UNCHANGED <<txs, signerCache, stk, ret, lookups>>

(***************************************************************************)
(* The pure methods, one action each.                                      *)
(***************************************************************************)
IntrinsicGas(t) ==
    /\ Idle(1)
    /\ ret[1].fn = "none"
    /\ ret' = [ret EXCEPT ![1] = [NoRet EXCEPT !.fn = "IntrinsicGas", !.t = t,
                                     !.val = IntrinsicGasOf(txs[t].body).val,
                                     !.err = IntrinsicGasOf(txs[t].body).err]]
    /\ UNCHANGED <<txs, bufs, signerCache, stk, lookups>>

GasPrice(t, base) ==
    /\ Idle(1)
    /\ ret' = [ret EXCEPT ![1] = [NoRet EXCEPT !.fn = "GasPrice", !.t = t,
                                     !.val = GasPriceOf(txs[t].body, base),
                                     !.arg = [NoArg EXCEPT !.base = base]]]
    /\ lookups' = <<>>
    /\ UNCHANGED <<txs, bufs, signerCache, stk>>

MeasureDelay(t, head, id) ==
    /\ Idle(1)
    /\ ret' = [ret EXCEPT ![1] = [NoRet EXCEPT !.fn = "measureDelay", !.t = t,
                                     !.val = measureDelay(txs[t].body, head, id).val,
                                     !.arg = [NoArg EXCEPT !.head = head, !.id = id]]]
    /\ lookups' = measureDelay(txs[t].body, head, id).lookups
    /\ UNCHANGED <<txs, bufs, signerCache, stk>>

(***************************************************************************)
(* Spec: one goroutine using the objects, one call after another.          *)
(***************************************************************************)
MemoMethods == {"SigningHash", "Signer", "ID", "Size"}

Init ==
    /\ txs = [t \in TxIds |-> ZeroTx(t)]
    /\ bufs = [b \in 0..MaxTx |-> IF b = CallerBuf THEN OneSig ELSE <<>>]
    /\ signerCache = <<>>
    /\ stk = [th \in Threads |-> <<>>]
    /\ ret = [th \in Threads |-> NoRet]
    /\ lookups = <<>>

Next ==
    \/ \E t \in TxIds, fn \in MemoMethods : Call(1, fn, "load", t, NoArg)
    \/ StepTx(1)
    \/ StepSize(1)
    \/ \E t \in TxIds, u \in TxIds : WithSignature(t, u)
    \/ \E t \in TxIds, input \in DecodeInputs(DecodedSigs) : DecodeRLP(t, input)
    \/ \E s \in CallerSigs : MutateCallerSig(s)

Spec == Init /\ [][Next]_vars

(***************************************************************************)
(* SpecSigner: Signer() over objects decoded again and again, so that the  *)
(* shared LRU fills up and evicts.                                         *)
(***************************************************************************)
InitSigner ==
    /\ txs = [t \in TxIds |-> ZeroTx(t)]
    /\ bufs = [b \in 0..MaxTx |-> <<>>]
    /\ signerCache = <<>>
    /\ stk = [th \in Threads |-> <<>>]
    /\ ret = [th \in Threads |-> NoRet]
    /\ lookups = <<>>

NextSigner ==
    \/ \E t \in TxIds : Call(1, "Signer", "load", t, NoArg)
    \/ StepSigner(1)
    \/ \E t \in TxIds, input \in Encodings(SigInputs) : DecodeRLP(t, input)

SpecSigner == InitSigner /\ [][NextSigner]_vars

(***************************************************************************)
(* SpecConc: goroutines sharing one immutable transaction.                 *)
(***************************************************************************)
InitConc ==
    /\ \E n \in 0..MaxNonce, s \in SigInputs :
          /\ txs = [t \in TxIds |->
                      IF t = 1 THEN [ZeroTx(1) EXCEPT !.body.Nonce = n] ELSE ZeroTx(t)]
          /\ bufs = [b \in 0..MaxTx |-> IF b = 1 THEN s ELSE <<>>]
    /\ signerCache = <<>>
    /\ stk = [th \in Threads |-> <<>>]
    /\ ret = [th \in Threads |-> NoRet]
    /\ lookups = <<>>

NextConc ==
    \E th \in Threads :
        \/ \E fn \in MemoMethods : Call(th, fn, "load", 1, NoArg)
        \/ Call(th, "ProvedWork", "start", 1, NoArg)
        \/ StepTx(th)
        \/ StepSize(th)
        \/ StepWork(th)

SpecConc == InitConc /\ [][NextConc]_vars

(***************************************************************************)
(* SpecGas: IntrinsicGas over bodies of up to MaxClauses clauses.          *)
(***************************************************************************)
ZeroCounts ==
    {0, 1, (MaxUint64 - TxGas - ClauseGas) \div TxDataZeroGas,
     MaxUint64 \div TxDataZeroGas, MaxUint64 \div TxDataZeroGas + 1}

NonZeroCounts ==
    {0, 1, MaxUint64 \div TxDataNonZeroGas, MaxUint64 \div TxDataNonZeroGas + 1}

ClauseInputs ==
    {[To |-> to, Data |-> [zeros |-> z, nonzeros |-> nz]] :
        to \in 0..1, z \in ZeroCounts, nz \in NonZeroCounts}

ClauseSeqs == UNION {[1..n -> ClauseInputs] : n \in 0..MaxClauses}

InitGas ==
    /\ \E cs \in ClauseSeqs :
          txs = [t \in TxIds |->
                   IF t = 1 THEN [ZeroTx(1) EXCEPT !.body.Clauses = cs] ELSE ZeroTx(t)]
    /\ bufs = [b \in 0..MaxTx |-> <<>>]
    /\ signerCache = <<>>
    /\ stk = [th \in Threads |-> <<>>]
    /\ ret = [th \in Threads |-> NoRet]
    /\ lookups = <<>>

NextGas == IntrinsicGas(1)

SpecGas == InitGas /\ [][NextGas]_vars

(***************************************************************************)
(* SpecFee: the price methods on one transaction.                          *)
(***************************************************************************)
RefNumInputs == {0, 1, MaxUint32}

RefInputs == {n * RefSuffixMod + x : n \in RefNumInputs, x \in 0..(RefSuffixMod - 1)}

HeadInputs ==
    {0, 1, MaxTxWorkDelay, MaxTxWorkDelay + 1, MaxTxWorkDelay + 2, MaxUint32}

BaseInputs == {-MaxUint8 - 1, 0, 1, MaxUint8 + 1}

CoefInputs == {0, 1, MaxUint8}

GasInputs == {0, 1, 3}

\* The ids a lookup may return: the referenced block's, or another's.
IdInputs(body) == {<<body.BlockRef, 0>>, <<(body.BlockRef + 1) % (2 * RefSuffixMod), 0>>}

InitFee ==
    /\ \E r \in RefInputs, c \in CoefInputs, g \in GasInputs,
          s \in {<<>>, [i \in 1..SignatureLength |-> 1]} :
          /\ txs = [t \in TxIds |->
                      IF t = 1
                      THEN [ZeroTx(1) EXCEPT !.body.BlockRef = r,
                                             !.body.GasPriceCoef = c,
                                             !.body.Gas = g]
                      ELSE ZeroTx(t)]
          /\ bufs = [b \in 0..MaxTx |-> IF b = 1 THEN s ELSE <<>>]
    /\ signerCache = <<>>
    /\ stk = [th \in Threads |-> <<>>]
    /\ ret = [th \in Threads |-> NoRet]
    /\ lookups = <<>>

NextFee ==
    \/ \E base \in BaseInputs, head \in HeadInputs, id \in IdInputs(txs[1].body) :
          /\ Call(1, "OverallGasPrice", "start", 1,
                  [base |-> base, head |-> head, id |-> id])
    \/ \E base \in BaseInputs : GasPrice(1, base)
    \/ \E head \in HeadInputs, id \in IdInputs(txs[1].body) : MeasureDelay(1, head, id)
    \/ StepOverall(1)
    \/ StepWork(1)
    \/ StepTx(1)

SpecFee == InitFee /\ [][NextFee]_vars

(***************************************************************************)
(* What the methods are to return: the values computed from an object's    *)
(* current body with no memo cell and no cache in between.                 *)
(***************************************************************************)
HashNow(t) == SigningHashOf(txs[t].body)

SignerNow(t) == SigToAddress(HashNow(t), Sig(t))

IDNow(t) ==
    IF SignerNow(t).err THEN invalidTxID ELSE makeIDOf(HashNow(t), SignerNow(t).val)

WorkNow(t) == IF SignerNow(t).err THEN 0 ELSE MaxBig256 \div IDNow(t)

SizeNow(t) == SizeOf(txs[t].body, Sig(t))

\* Every non-empty memo cell of t holds the value of t's current body.
CellsCoherent(t) ==
    LET c == txs[t].cache IN
    /\ c.signingHash # Empty => c.signingHash = Some(HashNow(t))
    /\ c.signer # Empty => ~SignerNow(t).err /\ c.signer = Some(SignerNow(t).val)
    /\ c.id # Empty => c.id = Some(IDNow(t))
    /\ c.size # Empty => c.size = Some(SizeNow(t))

\* What a goroutine's last call returned is what the body determines.
ReturnAgrees(r) ==
    /\ r.fn = "SigningHash" => r.val = HashNow(r.t)
    /\ r.fn = "Signer" => r.err = SignerNow(r.t).err /\ r.val = SignerNow(r.t).val
    /\ r.fn = "ID" => r.val = IDNow(r.t)
    /\ r.fn = "Size" => r.val = SizeNow(r.t)

(***************************************************************************)
(* C1.  As claimed: the id memo of a transaction whose Signer() fails is   *)
(* never written, so the sentinel is never stored in it.                   *)
(***************************************************************************)
C1_SentinelNeverStored ==
    \A t \in TxIds : SignerNow(t).err => txs[t].cache.id = Empty

(***************************************************************************)
(* C1, amended.  ID() stores what it returns whatever Signer() returned:   *)
(* once ID() has returned on a transaction its id memo holds the returned  *)
(* value, the sentinel when Signer() fails; the id memo never holds any    *)
(* other value than the body's id, and the signer memo of a transaction    *)
(* whose Signer() fails stays empty.                                       *)
(***************************************************************************)
C1_IdMemoHoldsReturn ==
    /\ \A th \in Threads :
          ret[th].fn = "ID" => txs[ret[th].t].cache.id = Some(ret[th].val)
    /\ \A t \in TxIds :
          /\ txs[t].cache.id # Empty => txs[t].cache.id = Some(IDNow(t))
          /\ SignerNow(t).err => txs[t].cache.signer = Empty

C1_Witness ==
    \E th \in Threads :
        /\ ret[th].fn = "ID"
        /\ ret[th].val = invalidTxID
        /\ SignerNow(ret[th].t).err
        /\ txs[ret[th].t].cache.id = Some(invalidTxID)

\* The digest tells apart the encodings the signer LRU is keyed by.
KeccakTellsEncodingsApart ==
    \A p, q \in DecodableBodies(1) \X SigInputs :
        SignerCacheKey(p[1], p[2]) = SignerCacheKey(q[1], q[2]) =>
           RLPEncode(p[1], p[2]) = RLPEncode(q[1], q[2])

(***************************************************************************)
(* C2.  Every entry of the signer LRU is keyed by the digest of some full  *)
(* encoding and holds the address recovered from every encoding with that  *)
(* key; a signer memo holds the address recovered from its transaction;    *)
(* an encoding that recovers no key has no entry and no memo; Signer()     *)
(* returns the recovered address, or the error, whatever the cache holds;  *)
(* the LRU never exceeds its capacity and has no key twice.                *)
(***************************************************************************)
AllEncoded == DecodableBodies(1) \X SigInputs

C2_SignerCacheCorrect ==
    /\ Len(signerCache) <= signerCacheSize
    /\ \A i, j \in 1..Len(signerCache) :
          signerCache[i].key = signerCache[j].key => i = j
    /\ \A i \in 1..Len(signerCache) :
          /\ \E p \in AllEncoded : SignerCacheKey(p[1], p[2]) = signerCache[i].key
          /\ \A p \in AllEncoded :
                SignerCacheKey(p[1], p[2]) = signerCache[i].key =>
                   /\ ~SigToAddress(SigningHashOf(p[1]), p[2]).err
                   /\ signerCache[i].value = SigToAddress(SigningHashOf(p[1]), p[2]).val
    /\ \A t \in TxIds :
          txs[t].cache.signer # Empty =>
             ~SignerNow(t).err /\ txs[t].cache.signer = Some(SignerNow(t).val)
    /\ \A th \in Threads :
          ret[th].fn = "Signer" =>
             /\ ret[th].err = SignerNow(ret[th].t).err
             /\ ret[th].val = SignerNow(ret[th].t).val

\* Signer() has just answered for an object whose LRU entry was evicted
\* while another object still holds its memo, the LRU being full.
C2_Witness ==
    /\ ret[1].fn = "Signer"
    /\ ~ret[1].err
    /\ Len(signerCache) = signerCacheSize
    /\ \E t \in TxIds :
          /\ txs[t].cache.signer # Empty
          /\ ~LruHas(signerCache, SignerCacheKey(txs[t].body, Sig(t)))

(***************************************************************************)
(* C3.  Under any interleaving of SigningHash(), ID(), Signer() and Size() *)
(* on one transaction every call returns the value the immutable body      *)
(* determines, every written memo cell holds that value, and a written     *)
(* cell never changes.                                                     *)
(***************************************************************************)
C3_Agree ==
    /\ \A th \in Threads : ReturnAgrees(ret[th])
    /\ \A t \in TxIds : CellsCoherent(t)

C3_WriteOnce ==
    \A t \in TxIds :
        /\ txs[t].cache.signingHash # Empty =>
              txs'[t].cache.signingHash = txs[t].cache.signingHash
        /\ txs[t].cache.signer # Empty => txs'[t].cache.signer = txs[t].cache.signer
        /\ txs[t].cache.id # Empty => txs'[t].cache.id = txs[t].cache.id
        /\ txs[t].cache.size # Empty => txs'[t].cache.size = txs[t].cache.size

\* C3: returns and cells always agree with the body, and a written cell is
\* never overwritten with another value.
C3_MemoAgreement == []C3_Agree /\ [][C3_WriteOnce]_vars

\* One goroutine has returned an id it computed and stored while another,
\* having found the cell empty too, is about to store its own.
C3_Witness ==
    \E a, b \in Threads :
        /\ a # b
        /\ ret[a].fn = "ID"
        /\ ret[a].val # invalidTxID
        /\ At(b, "ID", "store")
        /\ txs[1].cache.id # Empty

(***************************************************************************)
(* C4.  WithSignature leaves its receiver as it was, body, signature bytes *)
(* and memo cells, and gives the new object a copy of the caller's bytes;  *)
(* the bytes the caller later writes into its own sig change no            *)
(* transaction's signature; so what SigningHash(), Signer() and ID()       *)
(* return, and what the memo cells hold, stays what the body determines.   *)
(***************************************************************************)
C4_ResultsStable ==
    /\ ReturnAgrees(ret[1])
    /\ \A t \in TxIds : CellsCoherent(t)

C4_ReceiverUntouched ==
    /\ \A t \in TxIds, u \in TxIds :
          WithSignature(t, u) =>
             /\ txs'[t] = txs[t]
             /\ bufs'[txs'[t].body.Signature] = bufs[txs[t].body.Signature]
             /\ bufs'[txs'[u].body.Signature] = bufs[CallerBuf]
    /\ \A s \in CallerSigs :
          MutateCallerSig(s) =>
             \A t \in TxIds :
                bufs'[txs'[t].body.Signature] = bufs[txs[t].body.Signature]

\* C4: results stay what the body determines, and neither WithSignature nor
\* the caller's later writes change a transaction.
C4_WithSignatureFrame == []C4_ResultsStable /\ [][C4_ReceiverUntouched]_vars

\* WithSignature has returned for a receiver whose id was already computed,
\* and the caller has since overwritten its sig: the new object keeps the
\* bytes it was given.
C4_Witness ==
    /\ ret[1].fn = "WithSignature"
    /\ txs[ret[1].t].cache.id # Empty
    /\ txs[ret[1].t].cache.signer # Empty
    /\ Sig(ret[1].val) = OneSig
    /\ bufs[CallerBuf] = ZeroSig

(***************************************************************************)
(* C5.  When recovery fails Signer() returns an error, ID() the sentinel   *)
(* and ProvedWork() zero, in any order and number of calls; when it        *)
(* succeeds ID() is the digest of signing hash and signer and ProvedWork() *)
(* is MaxBig256 / ID(); none of the calls faults.                          *)
(***************************************************************************)
C5_FailureAbsorbed ==
    \A th \in Threads :
        LET r == ret[th] IN
        r.fn \in {"Signer", "ID", "ProvedWork"} =>
           /\ ~r.fault
           /\ IF SignerNow(r.t).err
              THEN /\ r.fn = "Signer" => r.err
                   /\ r.fn = "ID" => r.val = invalidTxID
                   /\ r.fn = "ProvedWork" => r.val = 0
              ELSE /\ r.fn = "Signer" => ~r.err
                   /\ r.fn = "ID" => r.val = makeIDOf(HashNow(r.t), SignerNow(r.t).val)
                   /\ r.fn = "ProvedWork" =>
                         r.val = MaxBig256 \div makeIDOf(HashNow(r.t), SignerNow(r.t).val)

\* ProvedWork() returned zero although the sentinel id was already stored.
C5_Witness ==
    \E th \in Threads :
        /\ ret[th].fn = "ProvedWork"
        /\ ret[th].val = 0
        /\ SignerNow(ret[th].t).err
        /\ txs[ret[th].t].cache.id = Some(invalidTxID)

(***************************************************************************)
(* C6.  IntrinsicGas never returns a wrapped value: TxGas + ClauseGas for  *)
(* no clause; otherwise the unbounded sum S when it fits the word (then    *)
(* every product and partial sum fits) and (0, out of gas) when it does    *)
(* not.                                                                    *)
(***************************************************************************)
RECURSIVE UnboundedGas(_)
UnboundedGas(cs) ==
    IF cs = <<>> THEN 0
    ELSE TxDataZeroGas * Head(cs).Data.zeros
            + TxDataNonZeroGas * Head(cs).Data.nonzeros
            + (IF Head(cs).To = 0 THEN ClauseGasContractCreation ELSE ClauseGas)
            + UnboundedGas(Tail(cs))

C6_IntrinsicGasExact ==
    ret[1].fn = "IntrinsicGas" =>
       LET cs == txs[ret[1].t].body.Clauses
           S  == TxGas + UnboundedGas(cs)
       IN  IF cs = <<>>
           THEN ret[1].val = TxGas + ClauseGas /\ ~ret[1].err
           ELSE IF S <= MaxUint64
           THEN ret[1].val = S /\ ~ret[1].err
           ELSE ret[1].val = 0 /\ ret[1].err

\* Out of gas for clauses each of which alone fits the word.
C6_Witness ==
    /\ ret[1].fn = "IntrinsicGas"
    /\ ret[1].err
    /\ Len(txs[1].body.Clauses) >= 2
    /\ \A i \in 1..Len(txs[1].body.Clauses) :
          TxGas + UnboundedGas(<<txs[1].body.Clauses[i]>>) <= MaxUint64

(***************************************************************************)
(* C7.  As claimed: OverallGasPrice returns GasPrice(base) + bonus with    *)
(* 0 <= bonus <= base when base >= 0 and the declared gas is positive, and *)
(* bonus = 0 whenever the measured delay exceeds MaxTxWorkDelay or the     *)
(* transaction is unsigned.                                                *)
(***************************************************************************)
DelayOf(r) == measureDelay(txs[r.t].body, r.arg.head, r.arg.id).val

BonusOf(r) == r.val - GasPriceOf(txs[r.t].body, r.arg.base)

C7_OverallPrice ==
    ret[1].fn = "OverallGasPrice" =>
       /\ ~ret[1].fault
       /\ (ret[1].arg.base >= 0 /\ txs[1].body.Gas > 0) =>
             (0 <= BonusOf(ret[1]) /\ BonusOf(ret[1]) <= ret[1].arg.base)
       /\ (DelayOf(ret[1]) > MaxTxWorkDelay \/ WorkNow(1) = 0) => BonusOf(ret[1]) = 0

\* The same statement for the transactions that declare some gas.
OverallPriceWithGas == txs[1].body.Gas > 0 => C7_OverallPrice

\* GasPrice(base) is base + floor(base * coef / 255).
GasPriceFloor ==
    ret[1].fn = "GasPrice" =>
       \E q \in -(2 * MaxUint8)..(2 * MaxUint8) :
          /\ q * MaxUint8 <= txs[1].body.GasPriceCoef * ret[1].arg.base
          /\ txs[1].body.GasPriceCoef * ret[1].arg.base < (q + 1) * MaxUint8
          /\ ret[1].val = ret[1].arg.base + q

(***************************************************************************)
(* C8.  measureDelay returns the infinite delay when the reference is not  *)
(* below the head, when the gap exceeds MaxTxWorkDelay, or when the id     *)
(* looked up does not start with the reference; otherwise the gap, which   *)
(* lies in 1..MaxTxWorkDelay.  The lookup is called, once and with the     *)
(* referenced number, only when the first two checks pass.                 *)
(***************************************************************************)
C8_MeasureDelayExact ==
    ret[1].fn = "measureDelay" =>
       LET body   == txs[ret[1].t].body
           head   == ret[1].arg.head
           refNum == body.BlockRef \div RefSuffixMod
           near   == refNum < head /\ head - refNum <= MaxTxWorkDelay
       IN  /\ lookups = IF near THEN <<refNum>> ELSE <<>>
           /\ IF near /\ ret[1].arg.id[1] = body.BlockRef
              THEN /\ ret[1].val = head - refNum
                   /\ ret[1].val \in 1..MaxTxWorkDelay
              ELSE ret[1].val = MaxUint32

\* The largest gap that is still measured.
C8_Witness ==
    /\ ret[1].fn = "measureDelay"
    /\ ret[1].val = MaxTxWorkDelay
    /\ lookups # <<>>

(***************************************************************************)
(* C9.  As claimed: OverallGasPrice returns a price for every transaction  *)
(* and every argument; it never faults.                                    *)
(***************************************************************************)
C9_OverallTotal == \A th \in Threads : ~(ret[th].fn = "OverallGasPrice" /\ ret[th].fault)

(***************************************************************************)
(* C10.  Every non-empty memo cell of an object holds the value of the     *)
(* object's current body; the object WithSignature returns and an object   *)
(* DecodeRLP succeeded on have empty cells; a successful DecodeRLP makes   *)
(* the body the decoded one and a failed one changes nothing.              *)
(***************************************************************************)
C10_Coherent ==
    /\ \A t \in TxIds : CellsCoherent(t)
    /\ ret[1].fn = "WithSignature" => txs[ret[1].val].cache = NoCache
    /\ (ret[1].fn = "DecodeRLP" /\ ~ret[1].err) => txs[ret[1].t].cache = NoCache

\* A step of DecodeRLP: the only step that ends with DecodeRLP's return
\* and leaves the caller's bytes alone.
DecodeStep ==
    /\ ret'[1].fn = "DecodeRLP"
    /\ Idle(1)
    /\ bufs'[CallerBuf] = bufs[CallerBuf]
    /\ <<txs', bufs', ret'>> # <<txs, bufs, ret>>

C10_DecodeFrame ==
    DecodeStep =>
       LET t == ret'[1].t IN
       IF ret'[1].err
       THEN txs' = txs /\ bufs' = bufs
       ELSE /\ RLPEncode(txs'[t].body, bufs'[txs'[t].body.Signature]) = ret'[1].input
            /\ txs'[t].cache = NoCache
            /\ \A u \in TxIds \ {t} :
                  /\ txs'[u] = txs[u]
                  /\ bufs'[txs'[u].body.Signature] = bufs[txs[u].body.Signature]

\* C10: the cells are always coherent with the body, and DecodeRLP either
\* replaces body and cells or changes nothing.
C10_MemoCoherence == []C10_Coherent /\ [][C10_DecodeFrame]_vars

\* WithSignature has returned an object with empty cells for a receiver
\* all of whose cells are written.
C10_Witness ==
    /\ ret[1].fn = "WithSignature"
    /\ \A c \in {"signingHash", "signer", "id", "size"} : txs[ret[1].t].cache[c] # Empty
    /\ txs[ret[1].val].cache = NoCache
    /\ Sig(ret[1].val) # Sig(ret[1].t)

====
